---- MODULE Spec2Model ----
(***************************************************************************)
(* A model of src/src/codegen_function.py: the NumpyEigen binding          *)
(* compiler.  One run of the __main__ block is one behaviour: the file     *)
(* reader hands the input to NpeFunction._parse line by line, _validate    *)
(* classifies the arguments, and codegen_ast writes the output file in     *)
(* three steps (write_declaration, write_body, write_end).                 *)
(*                                                                         *)
(* Text is modelled structurally.  A token is a sequence of atoms          *)
(* (<<"dense_", "f32">> is the text dense_f32, <<"npe_matches", "(", "a",   *)
(* ")">> is npe_matches(a)), so that lower(), startswith() and the slicing  *)
(* of _parse_matches_statement are computed and not assumed.  A line is a  *)
(* record [stmt, tokens, form]: stmt is the call name the line starts with *)
(* (or blank / comment / text), tokens are the argument strings the        *)
(* tokenizer returns for it, form tells whether the line leaves the        *)
(* statement's parenthesis open, closes one, or is balanced.               *)
(***************************************************************************)
EXTENDS Integers, Sequences, FiniteSets, TLC

\* ------------------------------------------------------------------ bounds
MaxLines == 6      \* physical lines of the input file
MaxArgs == 3       \* argument statements of the binding
MaxTypes == 2      \* array types listed by one argument statement
MaxDocLines == 3   \* lines accumulated for one documentation statement
MaxPreamble == 2   \* lines before the npe_function statement
MaxBody == 2       \* lines after the npe_begin_code statement

\* --------------------------------------------------------- token constants
MATCHES_TOKEN == "npe_matches"
ARG_TOKEN == "npe_arg"
DEFAULT_ARG_TOKEN == "npe_default_arg"
BEGIN_CODE_TOKEN == "npe_begin_code"
END_CODE_TOKEN == "npe_end_code"
FUNCTION_TOKEN == "npe_function"
DTYPE_TOKEN == "npe_dtype"
DOC_TOKEN == "npe_doc"
COMMENT_TOKEN == "//"

\* Element kinds of the catalog, in the order of the dictionary literal
\* (a three-kind excerpt of its fourteen).
ELEM == <<"f32", "f64", "i32">>

ElemSet == {ELEM[i] : i \in 1..Len(ELEM)}

CppScalar(e) ==
  CASE e = "f32" -> "float"
    [] e = "f64" -> "double"
    [] e = "i32" -> "std::int32_t"

PrettyName(e) ==
  CASE e = "f32" -> "float32"
    [] e = "f64" -> "float64"
    [] e = "i32" -> "int32"

\* The type catalog: array-type identifier |-> (C++ scalar, short code, name).
NUMPY_ARRAY_TYPES_TO_CPP ==
  [t \in {<<p, e>> : p \in {"dense_", "sparse_"}, e \in ElemSet} |->
     <<CppScalar(t[2]), t[2], PrettyName(t[2])>>]

NUMPY_ARRAY_TYPES == DOMAIN NUMPY_ARRAY_TYPES_TO_CPP

\* str.lower() on the atoms that occur in the model.
LowerAtom(s) ==
  CASE s = "Dense_" -> "dense_"
    [] s = "Sparse_" -> "sparse_"
    [] OTHER -> s

Lower(t) == [i \in DOMAIN t |-> LowerAtom(t[i])]

\* str.startswith for a prefix that is one atom.
StartsWith(t, prefix) == Len(t) >= 1 /\ t[1] = prefix

is_numpy_type(typestr) == Lower(typestr) \in NUMPY_ARRAY_TYPES

is_sparse_type(type_name) == is_numpy_type(type_name) /\ StartsWith(type_name, "sparse_")

is_dense_type(type_name) == is_numpy_type(type_name) /\ StartsWith(type_name, "dense_")

\* ------------------------------------------------------------ the input
NAME_ORDER == << <<"a">>, <<"b">>, <<"c">> >>

Names == {NAME_ORDER[i] : i \in 1..Len(NAME_ORDER)}

FunctionNames == {<<"foo">>}

DenseList(k) == [i \in 1..k |-> <<"dense_", ELEM[i]>>]

SparseList(k) == [i \in 1..k |-> <<"sparse_", ELEM[i]>>]

MatchesOf(n) == <<MATCHES_TOKEN, "(">> \o n \o <<")">>

\* The type-token lists an argument statement may carry: none, a scalar
\* type, one to MaxTypes dense types, one to MaxTypes sparse types, a dense
\* and a sparse type (in lower case and capitalised), an array type followed
\* by a scalar type, and npe_matches(n).
TypeLists ==
  {<<>>, << <<"int">> >>}
    \cup {DenseList(k) : k \in 1..MaxTypes}
    \cup {SparseList(k) : k \in 1..MaxTypes}
    \cup {<< <<"dense_", "f32">>, <<"sparse_", "f64">> >>,
          << <<"Dense_", "f32">>, <<"Sparse_", "f64">> >>,
          << <<"dense_", "f32">>, <<"int">> >>}
    \cup {<<MatchesOf(n)>> : n \in Names}

\* The type-token lists of a default-valued statement (before its value).
DefaultTypeLists == {<<>>, << <<"double">> >>, DenseList(1)}

DefaultValues == {<<"1e-6">>}

Line(stmt, tokens, form) == [stmt |-> stmt, tokens |-> tokens, form |-> form]

\* The default of the parameter max_iters of tokenize_npe_line.
max_iters == 64

\* k dense array types, each written with a blank before and after it.
LongList(k) == [i \in 1..k |-> <<" ", "dense_", ELEM[((i - 1) % Len(ELEM)) + 1], " ">>]

\* npe_arg statements with max_iters, max_iters + 1 and max_iters + 6
\* arguments (the name and the types).
LongArgLines ==
  {Line(ARG_TOKEN, <<NAME_ORDER[1]>> \o LongList(k), "full") :
     k \in {max_iters - 1, max_iters, max_iters + 5}}

ArgLines == {Line(ARG_TOKEN, <<n>> \o ts, "full") : n \in Names, ts \in TypeLists}

DefaultArgLines ==
  {Line(DEFAULT_ARG_TOKEN, <<n>>, "full") : n \in Names}
    \cup {Line(DEFAULT_ARG_TOKEN, <<n>> \o ts \o <<v>>, "full") :
            n \in Names, ts \in DefaultTypeLists, v \in DefaultValues}

FunctionLines ==
  {Line(FUNCTION_TOKEN, <<f>>, "full") : f \in FunctionNames}
    \cup {Line(FUNCTION_TOKEN, <<f, <<"bar">> >>, "full") : f \in FunctionNames}

\* npe_doc("hi") on one line, npe_doc() (one empty argument string), and
\* npe_doc( left open, to be closed by a later line.
DocLines ==
  {Line(DOC_TOKEN, << <<"hi">> >>, "full"),
   Line(DOC_TOKEN, << <<>> >>, "full"),
   Line(DOC_TOKEN, <<>>, "open")}

BeginLine == Line(BEGIN_CODE_TOKEN, <<>>, "full")

EndLine == Line(END_CODE_TOKEN, <<>>, "full")

DtypeLine == Line(DTYPE_TOKEN, << <<"a">> >>, "full")

BlankLine == Line("blank", <<>>, "full")

CommentLine == Line("comment", <<>>, "full")

\* Two lines of ordinary text, and a line that closes a parenthesis.
TextLines == {Line("text", << <<"x">> >>, "full"), Line("text", << <<"y">> >>, "full")}

CloseLine == Line("text", << <<")">> >>, "close")

AllLines ==
  ArgLines \cup LongArgLines \cup DefaultArgLines \cup FunctionLines \cup DocLines \cup TextLines
    \cup {BeginLine, EndLine, DtypeLine, BlankLine, CommentLine, CloseLine}

\* Paths of the input file, as path components and characters.
InputFiles == {<<"d1", "/", "f", ".", "cc">>, <<"d2", "/", "g", ".", "cc">>}

\* ------------------------------------------------------------- the state
VARIABLES
  pc,                      \* where the run is: seeking, declaring, body, parsed,
                           \* validated, opened, declared, bodied, exited
  input,                   \* the lines the reader has handed out so far
  input_file_name,         \* args.file
  file_reader,             \* NpeFileReader: [line_number, line]
  name,                    \* NpeFunction.name
  input_type_groups,       \* NpeFunction._input_type_groups: [types, arguments]
  argument_name_to_group,  \* NpeFunction._argument_name_to_group
  argument_names,          \* NpeFunction._argument_names
  arguments,               \* NpeFunction._arguments: name |-> NpeArgument
  source_code,             \* NpeFunction._source_code
  preamble,                \* NpeFunction._preamble
  docstr,                  \* NpeFunction._docstr
  parsing_doc,             \* local of _parse
  doc_lines,               \* local of _parse
  reached_end_token,       \* local of _parse
  error,                   \* the exception that ended the run, if any
  exit_code,               \* the process's exit status (-1 while running)
  out_file                 \* the output file

vars ==
  <<pc, input, input_file_name, file_reader, name, input_type_groups,
    argument_name_to_group, argument_names, arguments, source_code, preamble,
    docstr, parsing_doc, doc_lines, reached_end_token, error, exit_code, out_file>>

fun_vars ==
  <<name, input_type_groups, argument_name_to_group, argument_names, arguments,
    source_code, preamble, docstr>>

NoError == [kind |-> "none", msg |-> "", line |-> 0, arg |-> <<>>]

Exc(kind, msg, line, arg) == [kind |-> kind, msg |-> msg, line |-> line, arg |-> arg]

\* The output file before open(args.output, 'w+'): nothing is on disk.  The
\* text of the file is kept by section; written lists the sections in the
\* order they were written.
NoFile ==
  [created |-> FALSE, written |-> <<>>, preamble |-> <<>>,
   callit |-> [templated |-> FALSE, template |-> <<>>, params |-> <<>>, body |-> <<>>],
   func_name |-> <<>>, binding |-> <<>>, wrapper |-> <<>>, probes |-> <<>>,
   guards |-> <<>>, branches |-> <<>>, plain_body |-> <<>>, doc |-> <<>>,
   entries |-> <<>>]

\* NpeFileReader.__init__
NpeFileReader == [line_number |-> 0, line |-> BlankLine]

\* NpeFileReader.__next__: stores the line; line_number is only advanced by
\* readline(), which the parser never calls.
next_line(reader, l) == [reader EXCEPT !.line = l]

\* A dictionary store d[k] = v.
Put(d, k, v) == [x \in (DOMAIN d) \cup {k} |-> IF x = k THEN v ELSE d[x]]

\* The position (from 1) of Python's seq[i], where a negative i counts from
\* the end.
PyPos(seq, i) == IF i < 0 THEN Len(seq) + i + 1 ELSE i + 1

PyAt(seq, i) == seq[PyPos(seq, i)]

Init ==
  /\ pc = "seeking"
  /\ input = <<>>
  /\ input_file_name = <<>>
  /\ file_reader = NpeFileReader
  /\ name = <<>>
  /\ input_type_groups = <<>>
  /\ argument_name_to_group = <<>>
  /\ argument_names = <<>>
  /\ arguments = <<>>
  /\ source_code = <<>>
  /\ preamble = <<>>
  /\ docstr = <<>>
  /\ parsing_doc = FALSE
  /\ doc_lines = <<>>
  /\ reached_end_token = FALSE
  /\ error = NoError
  /\ exit_code = -1
  /\ out_file = NoFile

\* ------------------------------------------------------------ tokenizer

\* The text of a line, as atoms.
RECURSIVE JoinTokens(_)
JoinTokens(tokens) ==
  IF tokens = <<>> THEN <<>>
  ELSE IF Len(tokens) = 1 THEN tokens[1]
  ELSE tokens[1] \o <<",">> \o JoinTokens(Tail(tokens))

RawText(l) ==
  CASE l.stmt \in {"blank", "comment"} -> <<>>
    [] l.stmt = "text" -> JoinTokens(l.tokens)
    [] l.form = "open" -> <<l.stmt, "(">>
    [] OTHER -> <<l.stmt, "(">> \o JoinTokens(l.tokens) \o <<")">>

\* The parenthesis depth after each of the lines: a line left open adds one,
\* a closing line takes one (a closing line at depth 0 is stray text).
RECURSIVE DepthAfter(_, _)
DepthAfter(lines, i) ==
  IF i = 0 THEN 0
  ELSE LET d == DepthAfter(lines, i - 1)
       IN CASE lines[i].form = "open" -> d + 1
            [] lines[i].form = "close" /\ d > 0 -> d - 1
            [] OTHER -> d

\* The text between the parentheses of a statement left open on line 1 and
\* closed by the last line: one argument string (the preprocessor drops
\* blank and comment lines).
RECURSIVE InnerText(_, _)
InnerText(lines, i) ==
  IF i >= Len(lines) THEN <<>>
  ELSE RawText(lines[i]) \o InnerText(lines, i + 1)

\* str.strip() on a token: blanks at either end are dropped.
RECURSIVE strip(_)
strip(str) ==
  IF str # <<>> /\ Head(str) = " " THEN strip(Tail(str))
  ELSE IF str # <<>> /\ str[Len(str)] = " " THEN strip(SubSeq(str, 1, Len(str) - 1))
  ELSE str

\* The loop that would hand back the arguments peeled so far when the
\* iterations run out: what the for loop of tokenize_npe_line must not do.
cpp_loop_truncating(args) ==
  LET exits == {i \in 0..(max_iters - 1) : Len(args) = i + 1}
  IN IF exits = {}
     THEN [exited |-> TRUE, tokens |-> SubSeq(args, 1, max_iters)]
     ELSE [exited |-> TRUE, tokens |-> args]

\* The for loop of tokenize_npe_line over range(max_iters): run i of the
\* preprocessor expands stmt_token(arg, ...) once and so peels argument
\* i + 1; the loop breaks at the run after which what is left is
\* stmt_token(); if no run of the range is that one,
\* exited_before_max_iters is still False after the loop.
cpp_loop(args) ==
  LET exits == {i \in 0..(max_iters - 1) : Len(args) = i + 1}
  IN IF exits = {}
     THEN [exited |-> FALSE, tokens |-> <<>>]
     ELSE [exited |-> TRUE, tokens |-> SubSeq(args, 1, (CHOOSE i \in exits : TRUE) + 1)]

\* The arguments the preprocessor sees between the parentheses: an empty
\* pair of parentheses holds one empty argument.
written_arguments(args) == IF args = <<>> THEN << <<>> >> ELSE args

\* The end of tokenize_npe_line: a loop that ran out raises the ParseError,
\* and otherwise every token is stripped and the tokens are returned.
after_loop(loop) ==
  IF ~loop.exited
  THEN [err |-> "ParseError", msg |-> "maximum recursion depth", tokens |-> <<>>]
  ELSE [err |-> "none", msg |-> "",
        tokens |-> [i \in 1..Len(loop.tokens) |-> strip(loop.tokens[i])]]

\* tokenize_npe_line(stmt_token, line, line_number): the C preprocessor
\* expands stmt_token(arg, ...) once per iteration, peeling one argument.  It
\* fails on an unterminated argument list; text after the statement is
\* "extra tokens"; more than max_iters arguments exhaust the loop.  A second
\* invocation of stmt_token in the text is expanded too, and its pieces
\* arrive as further tokens (only their number is modelled).
tokenize_npe_line(stmt_token, lines) ==
  LET n == Len(lines)
      calls == {i \in 1..n : lines[i].stmt = stmt_token}
      stray == {i \in 2..n : /\ DepthAfter(lines, i - 1) = 0
                             /\ lines[i].form # "open"
                             /\ lines[i].stmt \notin {"blank", "comment", stmt_token}}
      last == CHOOSE i \in calls : \A j \in calls : j <= i
      closed == CHOOSE i \in 1..n :
                  /\ DepthAfter(lines, i) = 0
                  /\ \A j \in 1..(i - 1) : DepthAfter(lines, j) > 0
      args ==
        IF Cardinality(calls) > 1
        THEN [i \in 1..Cardinality(calls) |-> <<stmt_token>>]
        ELSE IF lines[1].form = "full" THEN lines[1].tokens
        ELSE <<InnerText(SubSeq(lines, 1, closed), 2)>>
  IN IF n = 0 \/ lines[1].stmt # stmt_token
     THEN [err |-> "ParseError", msg |-> "invalid code", tokens |-> <<>>]
     ELSE IF DepthAfter(lines, n) > 0
     THEN [err |-> "ParseError", msg |-> "invalid code", tokens |-> <<>>]
     ELSE IF \E i \in stray : i > last
     THEN [err |-> "ParseError", msg |-> "extra tokens", tokens |-> <<>>]
     ELSE after_loop(cpp_loop(written_arguments(args)))

\* ------------------------------------------------------------ the parser
NoValue == <<>>

NoGroup == [is |-> "None", at |-> 0]

\* The value of arg.group after parsing: the group object
\* self._input_type_groups[group_id], named by its place in the list.
GroupObject(group_id) == [is |-> "NpeArgumentGroup", at |-> group_id]

\* The value _validate stores in arg.group: the integer
\* self._argument_name_to_group[arg.name].
GroupIndex(group_id) == [is |-> "int", at |-> group_id]

\* NpeArgument.__init__
NpeArgument(var_name, is_matches, name_or_type, line_number, default_value) ==
  [name |-> var_name, is_matches |-> is_matches, name_or_type |-> name_or_type,
   line_number |-> line_number, is_sparse |-> FALSE, is_dense |-> FALSE,
   default_value |-> default_value, group |-> NoGroup, matches_name |-> <<>>]

\* NpeArgumentGroup.__init__; a member is held by its name, the only field
\* of a member that is ever read through the group.
NpeArgumentGroup(types, members) == [types |-> types, arguments |-> members]

\* _parse_matches_statement: the text between "npe_matches(" and ")".
parse_matches_statement(tok) ==
  IF ~(Len(tok) >= 2 /\ LowerAtom(tok[1]) = MATCHES_TOKEN /\ tok[2] = "(")
  THEN [err |-> "ParseError", name |-> <<>>]
  ELSE IF tok[Len(tok)] # ")"
  THEN [err |-> "ParseError", name |-> <<>>]
  ELSE [err |-> "none", name |-> SubSeq(tok, 3, Len(tok) - 1)]

\* The forward-reference branch of _parse_arg_statement computes the group id
\* before it appends the new group.
forward_group_id(groups) == Len(groups) - 1

\* The result of _parse_arg_statement: the exception it raises, or the new
\* values of the four collections it updates.
ArgResult(exc, groups, map, names, args) ==
  [exc |-> exc, groups |-> groups, map |-> map, names |-> names, args |-> args]

ArgRaise(exc) ==
  ArgResult(exc, input_type_groups, argument_name_to_group, argument_names, arguments)

parse_arg_statement(l, line_number, is_default) ==
  LET stmt_token == IF is_default THEN DEFAULT_ARG_TOKEN ELSE ARG_TOKEN
      tk == tokenize_npe_line(stmt_token, <<l>>)
      tokens == tk.tokens
      var_name == tokens[1]
      all_types == Tail(tokens)
      var_types == IF is_default THEN SubSeq(all_types, 1, Len(all_types) - 1) ELSE all_types
      var_value == IF is_default THEN all_types[Len(all_types)] ELSE NoValue
      meta == NpeArgument(var_name, FALSE, var_types, line_number, var_value)
      groups == input_type_groups
      map == argument_name_to_group
      Finish(gs, m, gid, vm) ==
        ArgResult(NoError, gs, m, Append(argument_names, var_name),
                  Put(arguments, var_name,
                      [vm EXCEPT !.group = IF gid >= 0 THEN GroupObject(gid) ELSE NoGroup]))
  IN
  IF tk.err # "none" THEN ArgRaise(Exc(tk.err, tk.msg, line_number, <<>>))
  ELSE IF is_default /\ all_types = <<>>
  THEN ArgRaise(Exc("IndexError", "pop from empty list", 0, var_name))
  ELSE IF Len(var_types) = 0
  THEN ArgRaise(Exc("ParseError", "no type arguments", 0, var_name))
  ELSE IF Len(var_types) > 1 \/ is_numpy_type(var_types[1])
  THEN IF \E i \in 1..Len(var_types) : ~is_numpy_type(var_types[i])
       THEN ArgRaise(Exc("ParseError", "invalid type", line_number, var_name))
       ELSE IF var_name \in DOMAIN map
       THEN LET group_id == map[var_name]
                pos == PyPos(groups, group_id)
            IN IF Len(groups[pos].types) # 0
               THEN ArgRaise(Exc("AssertionError", "group has types", 0, var_name))
               ELSE Finish([groups EXCEPT ![pos] =
                              [types |-> var_types,
                               arguments |-> Append(groups[pos].arguments, var_name)]],
                           map, group_id, meta)
       ELSE LET group_id == Len(groups)
            IN Finish(Append(groups, NpeArgumentGroup(var_types, <<var_name>>)),
                      Put(map, var_name, group_id), group_id, meta)
  ELSE IF StartsWith(var_types[1], MATCHES_TOKEN)
  THEN LET pm == parse_matches_statement(var_types[1])
           matches_name == pm.name
       IN IF pm.err # "none"
          THEN ArgRaise(Exc("ParseError", "missing )", line_number, var_name))
          ELSE IF matches_name \in DOMAIN map
          THEN LET group_id == map[matches_name]
                   pos == PyPos(groups, group_id)
               IN Finish([groups EXCEPT ![pos].arguments = Append(@, var_name)],
                         Put(map, var_name, group_id), group_id,
                         [meta EXCEPT !.is_matches = TRUE])
          ELSE LET group_id == forward_group_id(groups)
               IN Finish(Append(groups, NpeArgumentGroup(<<>>, <<var_name>>)),
                         Put(Put(map, var_name, group_id), matches_name, group_id),
                         group_id,
                         [meta EXCEPT !.is_matches = TRUE, !.matches_name = matches_name])
  ELSE Finish(groups, map, -1, meta)

\* _parse_doc_statement: with skip false it returns at once.
parse_doc_statement(lines, line_number, skip) ==
  LET tk == tokenize_npe_line(DOC_TOKEN, lines)
  IN IF ~skip THEN [exc |-> NoError, docstr |-> docstr]
     ELSE IF tk.err # "none"
     THEN [exc |-> Exc(tk.err, tk.msg, line_number, <<>>), docstr |-> docstr]
     ELSE IF Len(tk.tokens) = 0
     THEN [exc |-> Exc("ParseError", "no documentation string", line_number, <<>>),
           docstr |-> docstr]
     ELSE IF Len(tk.tokens) > 1
     THEN [exc |-> Exc("ParseError", "more than one documentation token", line_number, <<>>),
           docstr |-> docstr]
     ELSE [exc |-> NoError, docstr |-> tk.tokens[1]]

\* _parse_npe_function_statement: more than one token evaluates tokens[1, :],
\* which raises TypeError before the ParseError is built.
parse_npe_function_statement(l, line_number) ==
  LET tk == tokenize_npe_line(FUNCTION_TOKEN, <<l>>)
  IN IF tk.err # "none"
     THEN [exc |-> Exc(tk.err, tk.msg, line_number, <<>>), name |-> <<>>]
     ELSE IF Len(tk.tokens) > 1
     THEN [exc |-> Exc("TypeError", "list indices", 0, <<>>), name |-> <<>>]
     ELSE [exc |-> NoError, name |-> tk.tokens[1]]

\* consume_call_statement(token, line, throw=False): the line starts with
\* token and "(".
consume_call_statement(token, l) == l.stmt = token

\* len(line.strip()) == 0
IsBlank(l) == l.stmt = "blank"

\* line.strip().lower().startswith(COMMENT_TOKEN)
IsComment(l) == l.stmt = "comment"

\* The statements a seeking loop without its test for npe_doc would reject.
EarlyTokens_but_doc == <<ARG_TOKEN, DEFAULT_ARG_TOKEN, BEGIN_CODE_TOKEN, END_CODE_TOKEN, DTYPE_TOKEN>>

\* The statements the seeking loop rejects, in the order it tests them.
EarlyTokens == <<ARG_TOKEN, DEFAULT_ARG_TOKEN, BEGIN_CODE_TOKEN, END_CODE_TOKEN, DTYPE_TOKEN, DOC_TOKEN>>

\* The lines offered to each phase of the parser.
SeekInput ==
  TextLines \cup FunctionLines \cup DocLines
    \cup {BlankLine, CommentLine, BeginLine, EndLine, DtypeLine}
    \cup {Line(ARG_TOKEN, << <<"a">>, <<"int">> >>, "full"),
          Line(DEFAULT_ARG_TOKEN, << <<"a">>, <<"double">>, <<"1e-6">> >>, "full")}

DeclInput == AllLines

\* The lines offered while a documentation statement is being accumulated.
DocInput ==
  {BlankLine, CommentLine, CloseLine, EndLine,
   Line("text", << <<"x">> >>, "full"), Line(FUNCTION_TOKEN, << <<"foo">> >>, "full")}

BodyInput ==
  TextLines \cup FunctionLines \cup DocLines
    \cup {BlankLine, CommentLine, BeginLine, EndLine, DtypeLine}
    \cup {l \in ArgLines : l.tokens = << <<"a">>, <<"int">> >>}

\* The input files considered are of two families: files made of
\* npe_function, argument, npe_begin_code and npe_end_code statements and
\* text lines only, with every kind of argument statement; and files with
\* every kind of line, whose argument statements are among SmallArgLines.
IsArgLine(l) == l.stmt \in {ARG_TOKEN, DEFAULT_ARG_TOKEN}

IsPlainLine(l) ==
  \/ l.stmt \in {FUNCTION_TOKEN, ARG_TOKEN, DEFAULT_ARG_TOKEN, BEGIN_CODE_TOKEN, END_CODE_TOKEN}
  \/ l \in TextLines

SmallArgLines ==
  {Line(ARG_TOKEN, << <<"a">>, <<"int">> >>, "full"),
   Line(ARG_TOKEN, << <<"a">>, <<"dense_", "f32">> >>, "full"),
   Line(DEFAULT_ARG_TOKEN, << <<"a">>, <<"double">>, <<"1e-6">> >>, "full")}

\* A statement of LongArgLines is the only argument statement of its file.
LongAlone(f) ==
  \A i \in 1..Len(f) :
    f[i] \in LongArgLines => \A j \in 1..Len(f) : IsArgLine(f[j]) => j = i

InputOK(f) ==
  /\ \/ \A i \in 1..Len(f) : IsPlainLine(f[i])
     \/ \A i \in 1..Len(f) : IsArgLine(f[i]) => f[i] \in SmallArgLines
  /\ LongAlone(f)

\* The reader hands out the next line of the file.
Read(l) ==
  /\ Len(input) < MaxLines
  /\ InputOK(Append(input, l))
  /\ input' = Append(input, l)
  /\ file_reader' = next_line(file_reader, l)

\* An exception leaves NpeFunction(infile): the __main__ block reports a
\* ParseError or SemanticError and calls sys.exit(1); any other exception
\* ends the interpreter, also with status 1.
Fail(exc) ==
  /\ pc' = "exited"
  /\ error' = exc
  /\ exit_code' = 1

LineNo == file_reader.line_number + 1

\* ---------------------------------------------- _parse, the seeking loop
SeekBlank ==
  /\ pc = "seeking"
  /\ Len(input) < MaxPreamble
  /\ \E l \in SeekInput :
       /\ IsBlank(l)
       /\ Read(l)
  /\ UNCHANGED <<pc, input_file_name, fun_vars, parsing_doc, doc_lines,
                 reached_end_token, error, exit_code, out_file>>

SeekEarlyStatement ==
  /\ pc = "seeking"
  /\ \E l \in SeekInput :
       /\ ~IsBlank(l)
       /\ \E i \in 1..Len(EarlyTokens) : consume_call_statement(EarlyTokens[i], l)
       /\ Read(l)
       /\ Fail(Exc("ParseError", "statement before npe_function", LineNo, <<l.stmt>>))
  /\ UNCHANGED <<input_file_name, fun_vars, parsing_doc, doc_lines,
                 reached_end_token, out_file>>

SeekFunction ==
  /\ pc = "seeking"
  /\ \E l \in SeekInput :
       /\ consume_call_statement(FUNCTION_TOKEN, l)
       /\ Read(l)
       /\ LET r == parse_npe_function_statement(l, LineNo)
          IN IF r.exc # NoError
             THEN Fail(r.exc) /\ UNCHANGED name
             ELSE /\ name' = r.name
                  /\ pc' = "declaring"
                  /\ UNCHANGED <<error, exit_code>>
  /\ UNCHANGED <<input_file_name, input_type_groups, argument_name_to_group,
                 argument_names, arguments, source_code, preamble, docstr,
                 parsing_doc, doc_lines, reached_end_token, out_file>>

SeekPreamble ==
  /\ pc = "seeking"
  /\ Len(input) < MaxPreamble
  /\ \E l \in SeekInput :
       /\ ~IsBlank(l)
       /\ \A i \in 1..Len(EarlyTokens) : ~consume_call_statement(EarlyTokens[i], l)
       /\ ~consume_call_statement(FUNCTION_TOKEN, l)
       /\ Read(l)
       /\ preamble' = Append(preamble, l)
  /\ UNCHANGED <<pc, input_file_name, name, input_type_groups, argument_name_to_group,
                 argument_names, arguments, source_code, docstr, parsing_doc,
                 doc_lines, reached_end_token, error, exit_code, out_file>>

\* The file ends before any npe_function: binding_start_line_number < 0.
SeekEOF ==
  /\ pc = "seeking"
  /\ Fail(Exc("ParseError", "must begin with npe_function", 0, <<>>))
  /\ UNCHANGED <<input, input_file_name, file_reader, fun_vars, parsing_doc,
                 doc_lines, reached_end_token, out_file>>

\* -------------------------------------------- _parse, the declaring loop
\* The parser never looks into an argument name, it only compares names, so
\* the input is taken up to renaming: a name that has not occurred yet is
\* the first unused one of NAME_ORDER.
UsedNames == {argument_names[i] : i \in 1..Len(argument_names)} \cup DOMAIN argument_name_to_group

FreshName(used) ==
  LET free == {i \in 1..Len(NAME_ORDER) : NAME_ORDER[i] \notin used}
  IN IF free = {} THEN {} ELSE {NAME_ORDER[CHOOSE i \in free : \A j \in free : i <= j]}

NamesInOrder(l) ==
  LET n == l.tokens[1]
      ms == {m \in Names : Len(l.tokens) = 2 /\ l.tokens[2] = MatchesOf(m)}
  IN /\ n \in UsedNames \cup FreshName(UsedNames)
     /\ \A m \in ms : m \in UsedNames \cup {n} \cup FreshName(UsedNames \cup {n})

\* An npe_arg or npe_default_arg line: the argument is parsed, then a
\* documentation statement that was being accumulated is tokenized.
ArgStatement(l, is_default) ==
  /\ Len(argument_names) < MaxArgs
  /\ NamesInOrder(l)
  /\ Read(l)
  /\ LET r == parse_arg_statement(l, LineNo, is_default)
         d == parse_doc_statement(doc_lines, LineNo, parsing_doc)
     IN IF r.exc # NoError
        THEN /\ Fail(r.exc)
             /\ UNCHANGED <<input_type_groups, argument_name_to_group, argument_names,
                            arguments, docstr, parsing_doc>>
        ELSE /\ input_type_groups' = r.groups
             /\ argument_name_to_group' = r.map
             /\ argument_names' = r.names
             /\ arguments' = r.args
             /\ IF d.exc # NoError
                THEN Fail(d.exc) /\ UNCHANGED <<docstr, parsing_doc>>
                ELSE /\ docstr' = d.docstr
                     /\ parsing_doc' = FALSE
                     /\ UNCHANGED <<pc, error, exit_code>>
  /\ UNCHANGED <<input_file_name, name, source_code, preamble, doc_lines,
                 reached_end_token, out_file>>

DeclArg ==
  /\ pc = "declaring"
  /\ \E l \in DeclInput :
       /\ consume_call_statement(ARG_TOKEN, l)
       /\ ArgStatement(l, FALSE)

DeclDefaultArg ==
  /\ pc = "declaring"
  /\ \E l \in DeclInput :
       /\ consume_call_statement(DEFAULT_ARG_TOKEN, l)
       /\ ArgStatement(l, TRUE)

DeclDoc ==
  /\ pc = "declaring"
  /\ \E l \in DeclInput :
       /\ consume_call_statement(DOC_TOKEN, l)
       /\ Len(doc_lines) < MaxDocLines
       /\ Read(l)
       /\ IF docstr # <<>>
          THEN Fail(Exc("ParseError", "multiple npe_doc", LineNo, <<>>))
               /\ UNCHANGED <<doc_lines, parsing_doc>>
          ELSE /\ doc_lines' = Append(doc_lines, l)
               /\ parsing_doc' = TRUE
               /\ UNCHANGED <<pc, error, exit_code>>
  /\ UNCHANGED <<input_file_name, fun_vars, reached_end_token, out_file>>

DeclBeginCode ==
  /\ pc = "declaring"
  /\ \E l \in DeclInput :
       /\ consume_call_statement(BEGIN_CODE_TOKEN, l)
       /\ Read(l)
       /\ LET d == parse_doc_statement(doc_lines, LineNo, parsing_doc)
          IN IF d.exc # NoError
             THEN Fail(d.exc) /\ UNCHANGED docstr
             ELSE /\ docstr' = d.docstr
                  /\ pc' = "body"
                  /\ UNCHANGED <<error, exit_code>>
  /\ UNCHANGED <<input_file_name, name, input_type_groups, argument_name_to_group,
                 argument_names, arguments, source_code, preamble, parsing_doc,
                 doc_lines, reached_end_token, out_file>>

\* The statements the declaring loop recognises before it looks at parsing_doc.
DeclTokens == {ARG_TOKEN, DEFAULT_ARG_TOKEN, DOC_TOKEN, BEGIN_CODE_TOKEN}

DeclDocContinue ==
  /\ pc = "declaring"
  /\ parsing_doc
  /\ \E l \in DocInput :
       /\ l.stmt \notin DeclTokens
       /\ Len(doc_lines) < MaxDocLines
       /\ Read(l)
       /\ doc_lines' = Append(doc_lines, l)
  /\ UNCHANGED <<pc, input_file_name, fun_vars, parsing_doc, reached_end_token,
                 error, exit_code, out_file>>

DeclSkip ==
  /\ pc = "declaring"
  /\ ~parsing_doc
  /\ \E l \in DeclInput :
       /\ l.stmt \notin DeclTokens
       /\ IsBlank(l) \/ IsComment(l)
       /\ Read(l)
  /\ UNCHANGED <<pc, input_file_name, fun_vars, parsing_doc, doc_lines,
                 reached_end_token, error, exit_code, out_file>>

DeclUnexpected ==
  /\ pc = "declaring"
  /\ ~parsing_doc
  /\ \E l \in DeclInput :
       /\ l.stmt \notin DeclTokens
       /\ ~IsBlank(l)
       /\ ~IsComment(l)
       /\ Read(l)
       /\ Fail(Exc("ParseError", "unexpected tokens", LineNo, <<l.stmt>>))
  /\ UNCHANGED <<input_file_name, fun_vars, parsing_doc, doc_lines,
                 reached_end_token, out_file>>

\* The file ends before npe_begin_code: code_start_line_number < 0.
DeclEOF ==
  /\ pc = "declaring"
  /\ Fail(Exc("ParseError", "no npe_begin_code", 0, <<>>))
  /\ UNCHANGED <<input, input_file_name, file_reader, fun_vars, parsing_doc,
                 doc_lines, reached_end_token, out_file>>

\* ------------------------------------------------- _parse, the body loop
BodyEndCode ==
  /\ pc = "body"
  /\ \E l \in BodyInput :
       /\ consume_call_statement(END_CODE_TOKEN, l)
       /\ Read(l)
  /\ reached_end_token' = TRUE
  /\ UNCHANGED <<pc, input_file_name, fun_vars, parsing_doc, doc_lines,
                 error, exit_code, out_file>>

BodyLine ==
  /\ pc = "body"
  /\ ~reached_end_token
  /\ Len(source_code) < MaxBody
  /\ \E l \in BodyInput :
       /\ ~consume_call_statement(END_CODE_TOKEN, l)
       /\ Read(l)
       /\ source_code' = Append(source_code, l)
  /\ UNCHANGED <<pc, input_file_name, name, input_type_groups, argument_name_to_group,
                 argument_names, arguments, preamble, docstr, parsing_doc,
                 doc_lines, reached_end_token, error, exit_code, out_file>>

BodyAfterEnd ==
  /\ pc = "body"
  /\ reached_end_token
  /\ \E l \in BodyInput :
       /\ ~consume_call_statement(END_CODE_TOKEN, l)
       /\ Read(l)
       /\ IF ~IsBlank(l)
          THEN Fail(Exc("ParseError", "expected end of file", LineNo, <<l.stmt>>))
          ELSE UNCHANGED <<pc, error, exit_code>>
  /\ UNCHANGED <<input_file_name, fun_vars, parsing_doc, doc_lines,
                 reached_end_token, out_file>>

\* The file ends: without npe_end_code that is an error, with it _parse
\* returns.
BodyEOF ==
  /\ pc = "body"
  /\ IF ~reached_end_token
     THEN Fail(Exc("ParseError", "unexpected EOF", 0, <<>>))
     ELSE pc' = "parsed" /\ UNCHANGED <<error, exit_code>>
  /\ UNCHANGED <<input, input_file_name, file_reader, fun_vars, parsing_doc,
                 doc_lines, reached_end_token, out_file>>

\* ------------------------------------------------------------- _validate
\* NpeFunction.arguments: the metadata of each declared name, in order.
ArgumentsOf(args) == [i \in 1..Len(argument_names) |-> args[argument_names[i]]]

\* The first loop's test on one argument: some type of the statement
\* disagrees with the first in being sparse or in being dense.
has_mix(arg) ==
  \E i \in 1..Len(arg.name_or_type) :
    \/ is_sparse_type(arg.name_or_type[i]) # is_sparse_type(arg.name_or_type[1])
    \/ is_dense_type(arg.name_or_type[i]) # is_dense_type(arg.name_or_type[1])

\* The first loop's update of one argument.
classify(arg) ==
  [arg EXCEPT !.group = IF arg.name \in DOMAIN argument_name_to_group
                        THEN GroupIndex(argument_name_to_group[arg.name]) ELSE @,
              !.is_sparse = is_sparse_type(arg.name_or_type[1]),
              !.is_dense = is_dense_type(arg.name_or_type[1])]

\* The group the second loop looks up for a matches argument.
matched_group(arg) == PyAt(input_type_groups, argument_name_to_group[arg.name])

\* The second loop's update of one argument.
classify_matches(arg) ==
  IF arg.is_matches
  THEN [arg EXCEPT !.is_sparse = is_sparse_type(matched_group(arg).types[1]),
                   !.is_dense = is_dense_type(matched_group(arg).types[1])]
  ELSE arg

\* _validate: the exception it raises, or the arguments as it leaves them.
validate ==
  LET declared == ArgumentsOf(arguments)
      mixed == {i \in 1..Len(declared) : has_mix(declared[i])}
      first_mixed == CHOOSE i \in mixed : \A j \in mixed : i <= j
      args1 == [n \in DOMAIN arguments |-> classify(arguments[n])]
      after1 == ArgumentsOf(args1)
      unmatched == {i \in 1..Len(after1) :
                      /\ after1[i].is_matches
                      /\ Len(matched_group(after1[i]).types) = 0}
      first_unmatched == CHOOSE i \in unmatched : \A j \in unmatched : i <= j
  IN IF mixed # {}
     THEN [exc |-> Exc("SemanticError", "mix of sparse and dense",
                       declared[first_mixed].line_number, declared[first_mixed].name),
           args |-> arguments]
     ELSE IF unmatched # {}
     THEN [exc |-> Exc("SemanticError", "unmatched",
                       after1[first_unmatched].line_number, after1[first_unmatched].name),
           args |-> arguments]
     ELSE [exc |-> NoError, args |-> [n \in DOMAIN args1 |-> classify_matches(args1[n])]]

Validate ==
  /\ pc = "parsed"
  /\ LET v == validate
     IN IF v.exc # NoError
        THEN Fail(v.exc) /\ UNCHANGED arguments
        ELSE /\ arguments' = v.args
             /\ pc' = "validated"
             /\ UNCHANGED <<error, exit_code>>
  /\ UNCHANGED <<input, input_file_name, file_reader, name, input_type_groups,
                 argument_name_to_group, argument_names, source_code, preamble,
                 docstr, parsing_doc, doc_lines, reached_end_token, out_file>>

\* ----------------------------------------------------------- codegen_ast
STORAGE_ORDER_SUFFIXES == <<"_cm", "_rm", "_x">>

STORAGE_ORDER_SUFFIX_XM == STORAGE_ORDER_SUFFIXES[3]

MAP_TYPE_PREFIX == "npe_Map_"

\* NpeArgument.is_numpy_type
arg_is_numpy_type(arg) == arg.is_sparse \/ arg.is_dense

\* The arguments taken from last to first: what NpeFunction.arguments must
\* not yield.
arguments_reversed ==
  [i \in 1..Len(argument_names) |-> arguments[argument_names[Len(argument_names) + 1 - i]]]

\* NpeFunction.arguments
fun_arguments == ArgumentsOf(arguments)

\* NpeFunction.array_arguments
array_arguments == SelectSeq(fun_arguments, arg_is_numpy_type)

\* NpeFunction.has_array_arguments
has_array_arguments ==
  \E i \in 1..Len(fun_arguments) :
    is_numpy_type(fun_arguments[i].name_or_type[1]) \/ fun_arguments[i].is_matches

\* The names of the members of a group.
group_var_names(group) == group.arguments

\* os.path.basename(path): what follows the last separator.
RECURSIVE Basename(_)
Basename(path) ==
  IF \E i \in 1..Len(path) : path[i] = "/"
  THEN Basename(Tail(path))
  ELSE path

\* str.replace(".", "_")
ReplaceDots(str) == [i \in DOMAIN str |-> IF str[i] = "." THEN "_" ELSE str[i]]

\* func_name of write_declaration.
OutputFunName(file_name) == <<"pybind_output_fun_">> \o ReplaceDots(Basename(file_name))

\* write_code_function_definition: whether the template line is written, the
\* names it is built from, the parameters and the body of callit.
write_code_function_definition ==
  [templated |-> has_array_arguments,
   template |-> [i \in 1..Len(array_arguments) |-> array_arguments[i].name],
   params |-> [i \in 1..Len(fun_arguments) |->
                 [name |-> fun_arguments[i].name,
                  type |-> IF arg_is_numpy_type(fun_arguments[i])
                           THEN <<MAP_TYPE_PREFIX>> \o fun_arguments[i].name
                           ELSE fun_arguments[i].name_or_type[1]]],
   body |-> source_code]

\* One parameter of the lambda handed to m.def.
wrapper_param(arg) ==
  [name |-> arg.name,
   type |-> IF arg.is_sparse THEN <<"npe::sparse_array">>
            ELSE IF arg.is_dense THEN <<"pybind11::array">>
            ELSE arg.name_or_type[1]]

\* The guards write_declaration writes for one group: the representative's
\* type must be one of the group's types; then the loop over the other
\* members builds a guard per member, and the one write after the loop emits
\* the guard built last.
group_guards(group) ==
  LET names == group_var_names(group)
      type_guard == [kind |-> "type", rep |-> names[1], other |-> <<>>, types |-> group.types]
      member_guard == [kind |-> "member", rep |-> names[1], other |-> names[Len(names)],
                       types |-> <<>>]
  IN IF Len(names) = 1 THEN <<type_guard>> ELSE <<type_guard, member_guard>>

\* What stops the guards of a group from being written: a type that is no
\* key of the catalog (KeyError), or no type at all (IndexError).
group_guard_exc(group) ==
  IF \E i \in 1..Len(group.types) : group.types[i] \notin DOMAIN NUMPY_ARRAY_TYPES_TO_CPP
  THEN Exc("KeyError", "NUMPY_ARRAY_TYPES_TO_CPP", 0, <<>>)
  ELSE IF Len(group.types) = 0
  THEN Exc("IndexError", "pretty_group_types[0]", 0, <<>>)
  ELSE NoError

RECURSIVE Flatten(_)
Flatten(seqs) == IF seqs = <<>> THEN <<>> ELSE Head(seqs) \o Flatten(Tail(seqs))

\* write_declaration(): the file after it, and the exception that cut it
\* short, if any.
write_declaration(out, file_name) ==
  LET args == fun_arguments
      groups == input_type_groups
      o1 == [out EXCEPT !.written = @ \o <<"preamble", "callit", "m.def">>,
                        !.preamble = preamble,
                        !.callit = write_code_function_definition,
                        !.func_name = OutputFunName(file_name),
                        !.binding = name]
      bad_args == {i \in 1..Len(args) :
                     ~args[i].is_sparse /\ ~args[i].is_dense /\ Len(args[i].name_or_type) # 1}
      first_bad_arg == CHOOSE i \in bad_args : \A j \in bad_args : i <= j
      wrapper_upto(n) == [i \in 1..n |-> wrapper_param(args[i])]
      o2 == [o1 EXCEPT !.written = @ \o <<"wrapper", "probes">>,
                       !.wrapper = wrapper_upto(Len(args)),
                       !.probes = [i \in 1..Len(array_arguments) |-> array_arguments[i].name]]
      bad_groups == {g \in 1..Len(groups) : group_guard_exc(groups[g]) # NoError}
      first_bad_group == CHOOSE g \in bad_groups : \A h \in bad_groups : g <= h
      guards_upto(n) == Flatten([g \in 1..n |-> group_guards(groups[g])])
  IN IF bad_args # {}
     THEN [exc |-> Exc("AssertionError", "len(arg.name_or_type) == 1", 0, args[first_bad_arg].name),
           out |-> [o1 EXCEPT !.written = @ \o <<"wrapper">>,
                              !.wrapper = wrapper_upto(first_bad_arg - 1)]]
     ELSE IF bad_groups # {}
     THEN [exc |-> group_guard_exc(groups[first_bad_group]),
           out |-> [o2 EXCEPT !.written = @ \o <<"guards">>,
                              !.guards = guards_upto(first_bad_group - 1)]]
     ELSE [exc |-> NoError,
           out |-> [o2 EXCEPT !.written = @ \o <<"guards">>,
                              !.guards = guards_upto(Len(groups))]]

\* The pairs of one group with the type varying fastest: the order
\* itertools.product(types, STORAGE_ORDER_SUFFIXES) must not have.
expanded_type_group_type_fastest(group) ==
  [k \in 1..(Len(group.types) * Len(STORAGE_ORDER_SUFFIXES)) |->
     [type |-> group.types[((k - 1) % Len(group.types)) + 1],
      suffix |-> STORAGE_ORDER_SUFFIXES[((k - 1) \div Len(group.types)) + 1]]]

\* itertools.product(types, STORAGE_ORDER_SUFFIXES) for one group: the pairs
\* in the order of iteration, the suffix varying fastest.
expanded_type_group(group) ==
  [k \in 1..(Len(group.types) * Len(STORAGE_ORDER_SUFFIXES)) |->
     [type |-> group.types[((k - 1) \div Len(STORAGE_ORDER_SUFFIXES)) + 1],
      suffix |-> STORAGE_ORDER_SUFFIXES[((k - 1) % Len(STORAGE_ORDER_SUFFIXES)) + 1]]]

\* itertools.product(*expanded): every way to pick one pair per group, the
\* last group varying fastest.
RECURSIVE product(_)
product(expanded) ==
  IF expanded = <<>> THEN << <<>> >>
  ELSE LET rest == product(Tail(expanded))
           first == Head(expanded)
       IN [k \in 1..(Len(first) * Len(rest)) |->
             <<first[((k - 1) \div Len(rest)) + 1]>> \o rest[((k - 1) % Len(rest)) + 1]]

group_combos == product([g \in 1..Len(input_type_groups) |-> expanded_type_group(input_type_groups[g])])

\* No combination dropped: what the test below must not be.
skip_none(combo) == FALSE

\* The test that drops a combination: some group pairs a sparse type with
\* the unordered storage order.
skip(combo) ==
  \E g \in 1..Len(combo) :
    is_sparse_type(combo[g].type) /\ combo[g].suffix = STORAGE_ORDER_SUFFIX_XM

\* The typedefs write_code_block would write were the last member of the
\* group left out: what the inner loop must not do.
group_typedefs_but_last(group, choice) ==
  [m \in 1..(Len(group.arguments) - 1) |->
     [name |-> group.arguments[m],
      scalar |-> NUMPY_ARRAY_TYPES_TO_CPP[choice.type][1],
      sparse |-> is_sparse_type(choice.type),
      type |-> choice.type,
      suffix |-> choice.suffix]]

\* The inner loop of write_code_block: the typedefs of every member of one
\* group, made from the type and storage order picked for the group.
group_typedefs(group, choice) ==
  [m \in 1..Len(group.arguments) |->
     [name |-> group.arguments[m],
      scalar |-> NUMPY_ARRAY_TYPES_TO_CPP[choice.type][1],
      sparse |-> is_sparse_type(choice.type),
      type |-> choice.type,
      suffix |-> choice.suffix]]

\* write_code_block: the typedefs of every member of every group, then the
\* call of callit.
write_code_block(combo) ==
  [typedefs |-> Flatten([g \in 1..Len(combo) |-> group_typedefs(input_type_groups[g], combo[g])]),
   call |-> [templated |-> has_array_arguments,
             template |-> [i \in 1..Len(array_arguments) |-> array_arguments[i].name],
             args |-> [i \in 1..Len(fun_arguments) |->
                         [name |-> fun_arguments[i].name,
                          kind |-> IF ~arg_is_numpy_type(fun_arguments[i]) THEN "plain"
                                   ELSE IF ~fun_arguments[i].is_sparse THEN "map"
                                   ELSE "as_eigen"]]]]

\* One dispatch branch: its condition tests the representative of every
\* group against the type and storage order picked for the group.
branch(combo) ==
  [cond |-> [g \in 1..Len(combo) |->
               [rep |-> input_type_groups[g].arguments[1],
                type |-> combo[g].type,
                suffix |-> combo[g].suffix]],
   block |-> write_code_block(combo)]

\* The branches write_body writes, in order.
branches_of(combos) ==
  LET kept == SelectSeq(combos, LAMBDA c : ~skip(c))
  IN [k \in 1..Len(kept) |-> branch(kept[k])]

\* write_body(): the file after it, and the exception that cut it short.
write_body(out) ==
  IF has_array_arguments
  THEN [exc |-> NoError,
        out |-> [out EXCEPT !.written = @ \o <<"branches", "else">>,
                            !.branches = branches_of(group_combos)]]
  ELSE IF Len(group_combos) # 1
  THEN [exc |-> Exc("AssertionError", "This should never happen", 0, <<>>), out |-> out]
  ELSE [exc |-> NoError,
        out |-> [out EXCEPT !.written = @ \o <<"plain_body">>,
                            !.plain_body = <<source_code>>]]

\* write_end(): the documentation string when there is one, then one
\* pybind11::arg entry per argument, with its default value if it has one.
write_end(out) ==
  [out EXCEPT !.written = @ \o (IF Len(docstr) > 0 THEN <<"doc">> ELSE <<>>) \o <<"entries">>,
              !.doc = IF Len(docstr) > 0 THEN <<docstr>> ELSE <<>>,
              !.entries = [i \in 1..Len(fun_arguments) |->
                             [name |-> fun_arguments[i].name,
                              default |-> fun_arguments[i].default_value]]]

\* ---------------------------------------------------------------- __main__
\* open(args.output, 'w+') creates the output file, and the two header lines
\* are written, before codegen_ast runs.
OpenOutput ==
  /\ pc = "validated"
  /\ out_file' = [NoFile EXCEPT !.created = TRUE, !.written = <<"header">>]
  /\ pc' = "opened"
  /\ UNCHANGED <<input, input_file_name, file_reader, fun_vars, parsing_doc,
                 doc_lines, reached_end_token, error, exit_code>>

\* write_declaration reads the global input_file_name, the path given on
\* the command line; the path is drawn here, where it is first read.
WriteDeclaration ==
  /\ pc = "opened"
  /\ \E f \in InputFiles :
       /\ input_file_name' = f
       /\ LET r == write_declaration(out_file, f)
          IN /\ out_file' = r.out
             /\ IF r.exc # NoError
                THEN Fail(r.exc)
                ELSE pc' = "declared" /\ UNCHANGED <<error, exit_code>>
  /\ UNCHANGED <<input, file_reader, fun_vars, parsing_doc, doc_lines, reached_end_token>>

WriteBody ==
  /\ pc = "declared"
  /\ LET r == write_body(out_file)
     IN /\ out_file' = r.out
        /\ IF r.exc # NoError
           THEN Fail(r.exc)
           ELSE pc' = "bodied" /\ UNCHANGED <<error, exit_code>>
  /\ UNCHANGED <<input, input_file_name, file_reader, fun_vars, parsing_doc,
                 doc_lines, reached_end_token>>

\* write_end, after which the output file is closed and the program ends
\* with status 0.
WriteEnd ==
  /\ pc = "bodied"
  /\ out_file' = write_end(out_file)
  /\ pc' = "exited"
  /\ exit_code' = 0
  /\ UNCHANGED <<input, input_file_name, file_reader, fun_vars, parsing_doc,
                 doc_lines, reached_end_token, error>>

Next ==
  \/ SeekBlank \/ SeekEarlyStatement \/ SeekFunction \/ SeekPreamble \/ SeekEOF
  \/ DeclArg \/ DeclDefaultArg \/ DeclDoc \/ DeclBeginCode \/ DeclDocContinue
  \/ DeclSkip \/ DeclUnexpected \/ DeclEOF
  \/ BodyEndCode \/ BodyLine \/ BodyAfterEnd \/ BodyEOF
  \/ Validate
  \/ OpenOutput
  \/ WriteDeclaration
  \/ WriteBody
  \/ WriteEnd

Spec == Init /\ [][Next]_vars

\* ------------------------------------------- the generated wrapper, called
\* What the flags getter and the dtype probe of one array argument yield at
\* a call: the code of the element type and the storage order, named by its
\* suffix.
Detected == [elem : ElemSet, layout : {STORAGE_ORDER_SUFFIXES[i] : i \in 1..Len(STORAGE_ORDER_SUFFIXES)}]

\* The arguments the wrapper probes.
ProbedNames(out) == {out.probes[i] : i \in 1..Len(out.probes)}

\* The calls of the wrapper: what is detected of each probed argument.
Calls(out) == [ProbedNames(out) -> Detected]

\* npe::detail::is_sparse<decltype(var_name)>::value: the parameter of the
\* wrapper is an npe::sparse_array.
is_sparse_decltype(out, var_name) ==
  \E i \in 1..Len(out.wrapper) :
    out.wrapper[i].name = var_name /\ out.wrapper[i].type = <<"npe::sparse_array">>

\* npe::detail::get_type_id(is_sparse, type, storage order): the TypeId named
\* after the kind of array, the element type and the storage order.
get_type_id(is_sparse, type_s, so) ==
  <<IF is_sparse THEN "sparse_" ELSE "dense_", type_s, so>>

\* The value of the variable type_id_var(var_name) at the call.
type_id_at(out, call, var_name) ==
  get_type_id(is_sparse_decltype(out, var_name), call[var_name].elem, call[var_name].layout)

\* The guard lets the call through: the type guard throws when the element
\* type of the representative differs from that of every type of the group,
\* a member guard when the type ids of representative and member differ.
guard_passes(out, call, guard) ==
  IF guard.kind = "type"
  THEN \E i \in 1..Len(guard.types) :
         NUMPY_ARRAY_TYPES_TO_CPP[guard.types[i]][2] = call[guard.rep].elem
  ELSE type_id_at(out, call, guard.rep) = type_id_at(out, call, guard.other)

\* The condition of a branch is true at the call: for every group the type
\* id of its representative is the TypeId named typename.
branch_taken(out, call, br) ==
  \A g \in 1..Len(br.cond) :
    type_id_at(out, call, br.cond[g].rep) = br.cond[g].type \o <<br.cond[g].suffix>>

\* The call passes every guard and the condition of no branch is true: the
\* final else throws "This should never happen".
reaches_else(out, call) ==
  /\ \A i \in 1..Len(out.guards) : guard_passes(out, call, out.guards[i])
  /\ \A k \in 1..Len(out.branches) : ~branch_taken(out, call, out.branches[k])

\* ------------------------------------------------------------- properties
\* What the properties read off the text of the input file.

\* The position of the npe_function line that ends the seeking loop, and of
\* the npe_begin_code line that ends the declaring loop (one past the end
\* of the text read so far when there is none yet).
FunctionAt(f) ==
  LET at == {i \in 1..Len(f) : f[i].stmt = FUNCTION_TOKEN}
  IN IF at = {} THEN Len(f) + 1 ELSE CHOOSE i \in at : \A j \in at : i <= j

BeginAt(f) ==
  LET at == {i \in 1..Len(f) : i > FunctionAt(f) /\ f[i].stmt = BEGIN_CODE_TOKEN}
  IN IF at = {} THEN Len(f) + 1 ELSE CHOOSE i \in at : \A j \in at : i <= j

\* The positions of the argument statements of the declaring phase.
DeclaredAt(f) == {i \in 1..Len(f) : FunctionAt(f) < i /\ i < BeginAt(f) /\ IsArgLine(f[i])}

\* The argument statements of the declaring phase, in the order of the file.
DeclaredStatements(f) ==
  SelectSeq(SubSeq(f, FunctionAt(f) + 1, BeginAt(f) - 1), IsArgLine)

DeclaredNames(f) == [i \in 1..Len(DeclaredStatements(f)) |-> DeclaredStatements(f)[i].tokens[1]]

\* The type tokens of an argument statement: what follows the name, less
\* the default value of an npe_default_arg.
TypesOf(l) ==
  LET written == IF l.stmt = DEFAULT_ARG_TOKEN
                 THEN SubSeq(l.tokens, 2, Len(l.tokens) - 1)
                 ELSE SubSeq(l.tokens, 2, Len(l.tokens))
  IN [i \in 1..Len(written) |-> strip(written[i])]

\* The statement declares its argument with array types.
IsArrayStatement(l) ==
  /\ IsArgLine(l)
  /\ TypesOf(l) # <<>>
  /\ \A i \in 1..Len(TypesOf(l)) : is_numpy_type(TypesOf(l)[i])

\* The statement declares its argument as npe_matches(z).
IsMatchesOf(l, z) ==
  /\ IsArgLine(l)
  /\ Len(TypesOf(l)) = 1
  /\ TypesOf(l)[1] = MatchesOf(z)

Written(section) == \E i \in 1..Len(out_file.written) : out_file.written[i] = section

NamesIn(records) == [i \in 1..Len(records) |-> records[i].name]

Compiled == pc = "exited" /\ exit_code = 0

\* Validation has accepted the binding: what follows is code generation.
Analyzed == pc = "validated" \/ out_file.created

\* The number of sparse types of a list of candidate types.
SparseCount(types) == Cardinality({i \in 1..Len(types) : is_sparse_type(types[i])})

\* The product of 3 * t - s over lists of candidate types of length t with
\* s sparse types.
RECURSIVE BranchLaw(_)
BranchLaw(lists) ==
  IF lists = <<>> THEN 1
  ELSE (3 * Len(Head(lists)) - SparseCount(Head(lists))) * BranchLaw(Tail(lists))

GroupTypeLists == [g \in 1..Len(input_type_groups) |-> input_type_groups[g].types]

ArrayStatementTypeLists ==
  LET statements == SelectSeq(DeclaredStatements(input), IsArrayStatement)
  IN [i \in 1..Len(statements) |-> TypesOf(statements[i])]

\* C1: when the dispatch of a binding with array arguments has been written,
\* the number of its branches is the product over the type groups of
\* 3 * t - s, t the number of candidate types of the group and s the number
\* of sparse ones; the groups are those of the array-type statements of the
\* file.
C1_BranchCountLaw ==
  Written("branches") =>
    /\ Len(out_file.branches) = BranchLaw(GroupTypeLists)
    /\ Len(out_file.branches) = BranchLaw(ArrayStatementTypeLists)

\* A compiled binding with a group of two sparse types and a dense group:
\* (3 * 2 - 2) * 3 branches.
C1_Witness ==
  /\ Compiled
  /\ Len(input_type_groups) = 2
  /\ \E g \in 1..2 : SparseCount(input_type_groups[g].types) = 2
  /\ \E g \in 1..2 : SparseCount(input_type_groups[g].types) = 0
  /\ Len(out_file.branches) = 12

\* C2: in every branch written, every member of every type group has its
\* typedefs made from the type and storage order the branch's condition
\* tests for that group, every typedef of the branch is made so, and every
\* argument classified as an array has typedefs in the branch.
C2_GroupSharing ==
  \A k \in 1..Len(out_file.branches) :
    LET b == out_file.branches[k]
        defs == b.block.typedefs
        made_for(d, g) == d.type = b.cond[g].type /\ d.suffix = b.cond[g].suffix
    IN /\ Len(b.cond) = Len(input_type_groups)
       /\ \A g \in 1..Len(input_type_groups) :
            \A m \in 1..Len(input_type_groups[g].arguments) :
              \E i \in 1..Len(defs) :
                defs[i].name = input_type_groups[g].arguments[m] /\ made_for(defs[i], g)
       /\ \A i \in 1..Len(defs) :
            \E g \in 1..Len(input_type_groups) :
              /\ \E m \in 1..Len(input_type_groups[g].arguments) :
                   input_type_groups[g].arguments[m] = defs[i].name
              /\ made_for(defs[i], g)
       /\ \A a \in 1..Len(fun_arguments) :
            arg_is_numpy_type(fun_arguments[a]) =>
              \E i \in 1..Len(defs) : defs[i].name = fun_arguments[a].name

\* A compiled binding with two groups, one of them with two members.
C2_Witness ==
  /\ Compiled
  /\ Len(input_type_groups) = 2
  /\ \E g \in 1..2 : Len(input_type_groups[g].arguments) = 2
  /\ Len(out_file.branches) > 1

\* C3: the names of the argument statements of the declaring phase, in the
\* order of the file, are the names of the parameters of callit, of the
\* parameters of the wrapper and of the pybind11::arg entries, each as soon
\* as it is written.
C3_OrderPreserved ==
  /\ Written("callit") => NamesIn(out_file.callit.params) = DeclaredNames(input)
  /\ Written("probes") => NamesIn(out_file.wrapper) = DeclaredNames(input)
  /\ Written("entries") => NamesIn(out_file.entries) = DeclaredNames(input)

\* A compiled binding with three arguments of different names.
C3_Witness ==
  /\ Compiled
  /\ NamesIn(out_file.entries) = NAME_ORDER
  /\ NamesIn(out_file.callit.params) = NAME_ORDER

\* The members of a group, as a set of names.
Members(group) == {group.arguments[m] : m \in 1..Len(group.arguments)}

\* C4: when the declaring phase holds a statement declaring y as
\* npe_matches(z) and, before or after it, a statement declaring z with array
\* types, parsing does not stop at the assertion on the group of z, and once
\* both are parsed y and z are members of one group whose types are those of
\* the statement of z.
C4_MatchesEitherOrder ==
  \A i \in DeclaredAt(input) : \A j \in DeclaredAt(input) \ {i} :
    LET y == input[i].tokens[1]
        z == input[j].tokens[1]
    IN (/\ y # z
        /\ IsMatchesOf(input[i], z)
        /\ IsArrayStatement(input[j])
        /\ \A k \in DeclaredAt(input) \ {i, j} : input[k].tokens[1] \notin {y, z})
       => /\ ~(error.kind = "AssertionError" /\ error.msg = "group has types")
          /\ error = NoError =>
               \E g \in 1..Len(input_type_groups) :
                 /\ {y, z} \subseteq Members(input_type_groups[g])
                 /\ input_type_groups[g].types = TypesOf(input[j])

\* The statement at position i declares its argument as npe_matches(z) for a
\* z that no statement of the declaring phase declares with array types.
Unresolved(f, i) ==
  \E z \in Names :
    /\ IsMatchesOf(f[i], z)
    /\ \A j \in DeclaredAt(f) : ~(f[j].tokens[1] = z /\ IsArrayStatement(f[j]))

\* C5: a binding with an argument declared as npe_matches(z), z never
\* declared with array types, is not accepted by validation and never
\* reaches code generation.
C5_UnresolvedRejected ==
  Analyzed => \A i \in DeclaredAt(input) : ~Unresolved(input, i)

\* The type token names an array type of the dense family, of the sparse
\* family.
NamesDense(t) == is_numpy_type(t) /\ StartsWith(Lower(t), "dense_")

NamesSparse(t) == is_numpy_type(t) /\ StartsWith(Lower(t), "sparse_")

ListsDenseAndSparse(types) ==
  /\ \E i \in 1..Len(types) : NamesDense(types[i])
  /\ \E i \in 1..Len(types) : NamesSparse(types[i])

\* C6: validation accepts no binding with an argument statement that lists a
\* dense and a sparse array type, and in an accepted binding no group's
\* candidate types hold both.
C6_NoSparseDenseMix ==
  Analyzed =>
    /\ \A i \in DeclaredAt(input) : ~ListsDenseAndSparse(TypesOf(input[i]))
    /\ \A g \in 1..Len(input_type_groups) : ~ListsDenseAndSparse(input_type_groups[g].types)

\* The line at position k of the file declares the argument n.
DeclaresAt(f, k, n) == k \in 1..Len(f) /\ IsArgLine(f[k]) /\ f[k].tokens[1] = n

C8_NoPartialOutput ==
  pc = "exited" =>
    /\ exit_code # 0 => out_file = NoFile
    /\ exit_code = 0 => error = NoError /\ Written("entries")

\* The output of a successful compilation of the parsed binding, were the
\* input file named f.
OutputFor(f) ==
  write_end(write_body(write_declaration([NoFile EXCEPT !.created = TRUE,
                                                        !.written = <<"header">>], f).out).out)

\* C9: the output of a successful compilation is the same whatever the input
\* file is called.
C9_Deterministic ==
  Compiled => \A f \in InputFiles : out_file = OutputFor(f)

\* A file in the one accepted order: lines that are no statement, the
\* npe_function line, argument and documentation statements, npe_begin_code,
\* body lines that are no statement, npe_end_code, blank lines.
WellOrdered(f) ==
  \E i, j, k \in 1..Len(f) :
    /\ i < j /\ j < k
    /\ f[i].stmt = FUNCTION_TOKEN /\ f[j].stmt = BEGIN_CODE_TOKEN /\ f[k].stmt = END_CODE_TOKEN
    /\ \A q \in 1..(i - 1) : f[q].stmt \in {"blank", "comment", "text"}
    /\ \A q \in (i + 1)..(j - 1) :
         f[q].stmt \in {ARG_TOKEN, DEFAULT_ARG_TOKEN, DOC_TOKEN, "blank", "comment", "text"}
    /\ \A q \in (j + 1)..(k - 1) :
         f[q].stmt \notin {FUNCTION_TOKEN, ARG_TOKEN, DEFAULT_ARG_TOKEN, DOC_TOKEN,
                           BEGIN_CODE_TOKEN, END_CODE_TOKEN}
    /\ \A q \in (k + 1)..Len(f) : f[q].stmt = "blank"

\* C10: the parser accepts only files in the one order of statements.
C10_StatementOrder ==
  (pc \in {"parsed", "validated", "opened", "declared", "bodied"} \/ Compiled)
    => WellOrdered(input)

\* The argument strings of a statement as written, less the blanks at
\* either end of each.
Trimmed(l) == [i \in 1..Len(l.tokens) |-> strip(l.tokens[i])]

\* The tokens kept of an argument: its name, its types and, if it has one,
\* its default value.
KeptTokens(arg) ==
  <<arg.name>> \o arg.name_or_type
    \o (IF arg.default_value = NoValue THEN <<>> ELSE <<arg.default_value>>)

\* Every argument statement read so far has been parsed into an argument.
AllDeclared == Len(argument_names) = Cardinality(DeclaredAt(input))

\* The statement read last is an argument statement of the declaring phase.
ArgStatementRead ==
  /\ input # <<>>
  /\ IsArgLine(input[Len(input)])
  /\ FunctionAt(input) < Len(input)
  /\ BeginAt(input) > Len(input)

\* C11: an argument statement with more than max_iters arguments ends the
\* compilation with the ParseError of the tokenizer as soon as it is read;
\* and of a statement with at most max_iters arguments that was parsed into
\* an argument, exactly the arguments written are kept, in order, each
\* without the blanks around it.
C11_TokenizerBound ==
  ArgStatementRead =>
    LET l == input[Len(input)]
    IN /\ Len(l.tokens) > max_iters =>
            /\ pc = "exited"
            /\ error.kind = "ParseError"
            /\ error.msg = "maximum recursion depth"
       /\ (Len(l.tokens) <= max_iters /\ pc = "declaring")
            => KeptTokens(arguments[l.tokens[1]]) = Trimmed(l)

\* An argument declared by a statement of exactly max_iters arguments that
\* were written with blanks around them.
C11_Witness ==
  \E i \in DeclaredAt(input) :
    /\ Len(input[i].tokens) = max_iters
    /\ Trimmed(input[i]) # input[i].tokens
    /\ AllDeclared
    /\ Len(arguments[input[i].tokens[1]].name_or_type) = max_iters - 1

\* The default value written in an npe_default_arg statement: its last
\* token, without the blanks around it.
DefaultOf(l) == strip(l.tokens[Len(l.tokens)])

\* C12: once the registration entries are written, the entry of each
\* argument statement, in the order of declaration, carries the name
\* declared; for an npe_default_arg statement it carries the last token
\* written as its default value, and that token is not among the types of
\* the argument; for an npe_arg statement it carries no default value.
C12_DefaultValues ==
  Written("entries") =>
    LET stmts == DeclaredStatements(input)
    IN /\ Len(out_file.entries) = Len(stmts)
       /\ \A k \in 1..Len(stmts) :
            LET l == stmts[k]
                entry == out_file.entries[k]
            IN /\ entry.name = l.tokens[1]
               /\ l.stmt = DEFAULT_ARG_TOKEN =>
                    /\ entry.default = DefaultOf(l)
                    /\ arguments[l.tokens[1]].name_or_type = TypesOf(l)
               /\ l.stmt = ARG_TOKEN => entry.default = NoValue

\* C13: the ordered list of the argument names of the binding never holds
\* a name twice: a statement that declares a name already declared is not
\* accepted.
C13_NamesUnique ==
  \A i, j \in 1..Len(argument_names) :
    i # j => argument_names[i] # argument_names[j]

\* The positions of the groups that hold the name among their members.
GroupsHolding(n) ==
  {g \in 1..Len(input_type_groups) : n \in Members(input_type_groups[g])}

\* C14: in a binding that validation has accepted, each argument classified
\* as dense or sparse is a member of exactly one group, that group is the
\* one the name-to-group index resolves to for its name, and its list of
\* types is not empty; and no group has an empty list of types or an empty
\* list of members.
C14_GroupMembership ==
  Analyzed =>
    /\ \A i \in 1..Len(argument_names) :
         LET n == argument_names[i]
         IN arg_is_numpy_type(arguments[n]) =>
              /\ Cardinality(GroupsHolding(n)) = 1
              /\ n \in DOMAIN argument_name_to_group
              /\ n \in Members(PyAt(input_type_groups, argument_name_to_group[n]))
              /\ PyAt(input_type_groups, argument_name_to_group[n]).types # <<>>
    /\ \A g \in 1..Len(input_type_groups) :
         /\ input_type_groups[g].types # <<>>
         /\ input_type_groups[g].arguments # <<>>

\* The guard written compares the member with the representative.
MemberGuarded(rep, member) ==
  \E g \in 1..Len(out_file.guards) :
    /\ out_file.guards[g].kind = "member"
    /\ out_file.guards[g].rep = rep
    /\ out_file.guards[g].other = member

\* C15: when write_declaration has returned, for every group of two or more
\* members there is, for each member after the first, a guard that compares
\* that member with the first member of the group.
C15_MemberGuards ==
  pc = "declared" =>
    \A g \in 1..Len(input_type_groups) :
      LET names == group_var_names(input_type_groups[g])
      IN \A m \in 2..Len(names) : MemberGuarded(names[1], names[m])

\* The positions of the documentation statements of the declaring phase.
DocsAt(f) ==
  {i \in 1..Len(f) : FunctionAt(f) < i /\ i < BeginAt(f) /\ f[i].stmt = DOC_TOKEN}

\* C16: a binding whose declaring phase holds two documentation statements,
\* next to each other or with argument statements between them, never gets
\* past the declaring phase, and when its compilation has ended it has ended
\* with a ParseError.
C16_SecondDocRejected ==
  Cardinality(DocsAt(input)) >= 2 =>
    /\ pc \in {"declaring", "exited"}
    /\ pc = "exited" => error.kind = "ParseError"

\* The statements that must not stand before the npe_function statement.
EarlyStatements == {ARG_TOKEN, DEFAULT_ARG_TOKEN, DOC_TOKEN, BEGIN_CODE_TOKEN, END_CODE_TOKEN}

\* The positions before the npe_function statement that hold such a statement.
EarlyAt(f) == {i \in 1..Len(f) : i < FunctionAt(f) /\ f[i].stmt \in EarlyStatements}

\* No binding has been produced: the parser has not got a function name,
\* validation has not accepted anything and no output file exists.
NoBinding == name = <<>> /\ ~Analyzed /\ pc \notin {"declaring", "body", "parsed"}

\* C17: an argument, default-argument, documentation, begin-code or end-code
\* statement before the npe_function statement ends the compilation with a
\* ParseError as soon as it is read, and no binding is produced; and a
\* compilation that has ended on a file without an npe_function statement
\* has ended with a ParseError and no binding.
C17_SeekingRejects ==
  /\ \A i \in EarlyAt(input) :
       /\ i = Len(input)
       /\ pc = "exited"
       /\ error.kind = "ParseError"
       /\ error.msg = "statement before npe_function"
       /\ NoBinding
  /\ (pc = "exited" /\ FunctionAt(input) > Len(input)) =>
       /\ error.kind = "ParseError"
       /\ exit_code = 1
       /\ NoBinding

\* A documentation statement read after a preamble line, before any
\* npe_function statement.
C17_Witness ==
  /\ Len(input) = 2
  /\ input[1].stmt = "text"
  /\ input[2].stmt = DOC_TOKEN
  /\ pc = "exited"

\* The position of the first npe_end_code statement after npe_begin_code.
EndAt(f) ==
  LET at == {i \in 1..Len(f) : i > BeginAt(f) /\ f[i].stmt = END_CODE_TOKEN}
  IN IF at = {} THEN Len(f) + 1 ELSE CHOOSE i \in at : \A j \in at : i <= j

\* C18: a line that is not blank and stands after the first npe_end_code
\* statement of the body, a second npe_end_code statement included, ends
\* the compilation with a ParseError as soon as it is read; and the source
\* code of a parsed binding is the lines between npe_begin_code and that
\* first npe_end_code statement.
C18_NothingAfterEnd ==
  /\ \A j \in 1..Len(input) :
       (j > EndAt(input) /\ ~IsBlank(input[j])) =>
          /\ j = Len(input)
          /\ pc = "exited"
          /\ error.kind = "ParseError"
  /\ pc = "parsed" =>
       source_code = SubSeq(input, BeginAt(input) + 1, EndAt(input) - 1)

\* The lines of the file that precede the npe_function statement.
LinesBeforeFunction(f) == SubSeq(f, 1, FunctionAt(f) - 1)

\* C19: the preamble of a parsed binding is the lines of the file before
\* the npe_function statement, all of them and in their order, the blank
\* and the comment lines included; and the preamble written to the output
\* file is the same lines, written before the entry point.
C19_PreambleVerbatim ==
  /\ pc = "parsed" => preamble = LinesBeforeFunction(input)
  /\ Written("preamble") =>
       /\ out_file.preamble = LinesBeforeFunction(input)
       /\ \A i, j \in 1..Len(out_file.written) :
            (out_file.written[i] = "preamble" /\ out_file.written[j] = "m.def") => i < j

\* The layouts in the order of the branches: column-major, row-major,
\* unordered.
LayoutOrder == <<"_cm", "_rm", "_x">>

\* The number of choices of a group: a type of its list and a layout.
Radix(g) == Len(input_type_groups[g].types) * Len(LayoutOrder)

\* The number of combinations of choices of the groups after group g.
RECURSIVE Weight(_)
Weight(g) == IF g >= Len(input_type_groups) THEN 1 ELSE Radix(g + 1) * Weight(g + 1)

\* The choice of group g in the k-th combination in lexicographic order,
\* the first group most significant: the position of the type, then the
\* layout.
LexChoice(k, g) ==
  LET c == ((k - 1) \div Weight(g)) % Radix(g)
  IN [rep |-> input_type_groups[g].arguments[1],
      type |-> input_type_groups[g].types[(c \div Len(LayoutOrder)) + 1],
      suffix |-> LayoutOrder[(c % Len(LayoutOrder)) + 1]]

LexCombination(k) == [g \in 1..Len(input_type_groups) |-> LexChoice(k, g)]

\* A combination that pairs a sparse type with the unordered layout.
Excluded(cond) ==
  \E g \in 1..Len(cond) : is_sparse_type(cond[g].type) /\ cond[g].suffix = LayoutOrder[3]

\* The conditions of the branches in lexicographic order, the excluded
\* combinations left out.
LexBranches ==
  SelectSeq([k \in 1..(Radix(1) * Weight(1)) |-> LexCombination(k)],
            LAMBDA cond : ~Excluded(cond))

\* C20: the conditions of the branches written are, in the order written,
\* the combinations of one type and layout per group in lexicographic
\* order, the first group most significant, types in the order of the
\* group's list and then layouts in the order column-major, row-major,
\* unordered, with the combinations of a sparse type and the unordered
\* layout left out.
C20_BranchOrder ==
  (Written("branches") /\ input_type_groups # <<>>) =>
    [k \in 1..Len(out_file.branches) |-> out_file.branches[k].cond] = LexBranches

\* A compiled binding with a dense group of two types and then a sparse
\* group of two types: some combinations are left out between the branches.
C20_Witness ==
  /\ Compiled
  /\ Len(input_type_groups) = 2
  /\ SparseCount(input_type_groups[1].types) = 0
  /\ Len(input_type_groups[1].types) = 2
  /\ SparseCount(input_type_groups[2].types) = 2
  /\ Len(out_file.branches) = 24

\* An argument less its classification as sparse or dense.
WithoutClassification(arg) == [arg EXCEPT !.is_sparse = FALSE, !.is_dense = FALSE]

\* C21: the step of validation that accepts the binding changes nothing of
\* it but the sparse and dense flags of its arguments: the function name,
\* the groups with their types and members, the name-to-group index, the
\* order of the names, the source code, the preamble, the documentation
\* and every other field of every argument, its group reference included,
\* stay as parsing left them; and no step of code generation changes the
\* binding.
C21_LifecycleFrame ==
  [][/\ (pc = "parsed" /\ pc' = "validated") =>
          /\ UNCHANGED <<name, input_type_groups, argument_name_to_group,
                         argument_names, source_code, preamble, docstr>>
          /\ DOMAIN arguments' = DOMAIN arguments
          /\ \A n \in DOMAIN arguments :
               WithoutClassification(arguments'[n]) = WithoutClassification(arguments[n])
     /\ pc \in {"validated", "opened", "declared", "bodied"} => UNCHANGED fun_vars]_vars

\* Every argument the guards and the conditions of the branches name is one
\* the wrapper probes.
RepresentativesProbed ==
  /\ \A i \in 1..Len(out_file.guards) :
       /\ out_file.guards[i].rep \in ProbedNames(out_file)
       /\ out_file.guards[i].kind = "member" => out_file.guards[i].other \in ProbedNames(out_file)
  /\ \A k \in 1..Len(out_file.branches) : \A g \in 1..Len(out_file.branches[k].cond) :
       out_file.branches[k].cond[g].rep \in ProbedNames(out_file)

\* C22: of a compiled binding with array arguments, no call of the wrapper,
\* whatever element type and whichever of the three storage orders is
\* detected of each array argument, passes every guard and finds the
\* condition of no branch true: the final else is never executed.
C22_ElseUnreachable ==
  (Compiled /\ Written("else") /\ RepresentativesProbed) =>
    \A call \in Calls(out_file) : ~reaches_else(out_file, call)

\* C23: whenever parsing or analysis of an input ends the compilation, which
\* is before the output file is created, the failure is a ParseError or a
\* SemanticError, the two kinds __main__ catches and reports; it is never an
\* AssertionError, an IndexError, a KeyError or a TypeError.
C23_RejectionsReported ==
  (pc = "exited" /\ ~out_file.created) => error.kind \in {"ParseError", "SemanticError"}

====
